---- MODULE Spec2Model ----
(***************************************************************************)
(* SW360LicenseManager (src/sw360_license_manager.py): a client of a       *)
(* CouchDB database holding license documents.  The model has three        *)
(* layers:                                                                  *)
(*   - the document store the requests are sent to (revision tokens,       *)
(*     selector queries), as the manager expects it to behave;             *)
(*   - the transport, _make_request;                                       *)
(*   - the repository operations of the class, one operator each, and one  *)
(*     action per operation.                                               *)
(* JSON objects and Python dicts are functions from field names to values; *)
(* text values are sequences of one-character strings, so that lower() and *)
(* the substring test of search_licenses are computed, not assumed.        *)
(***************************************************************************)
EXTENDS Integers, Sequences, FiniteSets, TLC

VARIABLES
    db,     \* the remote database: document id -> [rev, deleted, body]
    last,   \* the record of the last completed call of the manager
    held,   \* per caller: the [id, rev] it read and has not used yet
    won     \* per caller: the [id, rev] its last successful mutation was issued with

vars == <<db, last, held, won>>

(***************************************************************************)
(* Bounds of the model.                                                    *)
(***************************************************************************)
MaxDocs == 2        \* document ids the store can hand out
MaxWrites == 4      \* writes the store accepts, over all documents
NumCallers == 2     \* concurrent callers of the manager

Ids == 1..MaxDocs
Revs == 1..MaxWrites
Callers == 1..NumCallers

(***************************************************************************)
(* Python values.                                                          *)
(***************************************************************************)
\* None, an empty dict and an empty list: all falsy, all without fields.
Empty == <<>>

\* A dict display {k: v, ..., **kwargs}: a key repeated later replaces the
\* earlier one, so the entries of kwargs, which come last, win.
DictDisplay(fixed, kwargs) ==
    [k \in (DOMAIN fixed) \cup (DOMAIN kwargs) |->
        IF k \in DOMAIN kwargs THEN kwargs[k] ELSE fixed[k]]

\* dict.get(key, default)
Get(dict, key, default) == IF key \in DOMAIN dict THEN dict[key] ELSE default

UpperCase ==
    <<"A","B","C","D","E","F","G","H","I","J","K","L","M",
      "N","O","P","Q","R","S","T","U","V","W","X","Y","Z">>

LowerCase ==
    <<"a","b","c","d","e","f","g","h","i","j","k","l","m",
      "n","o","p","q","r","s","t","u","v","w","x","y","z">>

\* str.lower() on one character, then on a string
LowerChar(c) ==
    IF \E i \in DOMAIN UpperCase : UpperCase[i] = c
    THEN LowerCase[CHOOSE i \in DOMAIN UpperCase : UpperCase[i] = c]
    ELSE c

Lower(s) == [i \in 1..Len(s) |-> LowerChar(s[i])]

\* needle in haystack, for strings
In(needle, haystack) ==
    \E off \in 0..(Len(haystack) - Len(needle)) :
        SubSeq(haystack, off + 1, off + Len(needle)) = needle

\* The fields whose values are booleans in every document of the model.
FlagFields == {"OSIApproved", "checked"}

\* str(license[field]): a string is itself, a boolean is "True" or "False".
Str(field, value) ==
    IF field \in FlagFields
    THEN IF value THEN <<"T","r","u","e">> ELSE <<"F","a","l","s","e">>
    ELSE value

(***************************************************************************)
(* The document store.  db[i].rev = 0: no document was ever stored under   *)
(* i.  A deleted document keeps its revision (a tombstone).                *)
(***************************************************************************)
NeverStored == [rev |-> 0, deleted |-> FALSE, body |-> Empty]

Stored(d, i) == d[i].rev > 0 /\ ~d[i].deleted

\* The document as the store returns it: its body with _id and _rev.
FullDoc(d, i) ==
    DictDisplay(d[i].body, [_id |-> i, _rev |-> d[i].rev])

Response(status, body, d) == [status |-> status, body |-> body, db |-> d]

\* GET /{id}
ServeGet(d, i) ==
    IF i \in Ids /\ Stored(d, i)
    THEN Response(200, FullDoc(d, i), d)
    ELSE Response(404, "not_found", d)

\* PUT /{id}, and POST of a body that names its _id: the body's _rev must be
\* the revision the id is at (a tombstone's too); without _rev the id must
\* hold no document.
ServeWrite(d, i, doc) ==
    LET cur == d[i]
        new == [rev |-> cur.rev + 1, deleted |-> FALSE,
                body |-> [k \in (DOMAIN doc) \ {"_id", "_rev"} |-> doc[k]]]
        accepted == Response(201, [ok |-> TRUE, id |-> i, rev |-> cur.rev + 1],
                             [d EXCEPT ![i] = new])
    IN  IF "_rev" \in DOMAIN doc
        THEN IF doc["_rev"] = 0 THEN Response(400, "bad_request", d)
             ELSE IF doc["_rev"] = cur.rev THEN accepted
             ELSE Response(409, "conflict", d)
        ELSE IF Stored(d, i) THEN Response(409, "conflict", d)
             ELSE accepted

\* POST to the database: the store assigns the id `fresh` unless the body
\* names one.
ServeCreate(d, doc, fresh) ==
    ServeWrite(d, Get(doc, "_id", fresh), doc)

\* DELETE /{id}?rev={rev}
ServeDelete(d, i, rev) ==
    IF ~(i \in Ids /\ Stored(d, i)) THEN Response(404, "not_found", d)
    ELSE IF rev = 0 THEN Response(400, "bad_request", d)
    ELSE IF rev # d[i].rev THEN Response(409, "conflict", d)
    ELSE Response(200, [ok |-> TRUE, id |-> i, rev |-> d[i].rev + 1],
                  [d EXCEPT ![i] = [rev |-> d[i].rev + 1, deleted |-> TRUE,
                                    body |-> Empty]])

\* A selector of field/value pairs matches a document that has every field
\* with exactly that value.
Matches(doc, selector) ==
    \A k \in DOMAIN selector : k \in DOMAIN doc /\ doc[k] = selector[k]

Project(doc, query) ==
    IF "fields" \in DOMAIN query
    THEN [k \in (DOMAIN doc) \cap {query.fields[n] : n \in DOMAIN query.fields}
            |-> doc[k]]
    ELSE doc

RECURSIVE FindFrom(_, _, _)
FindFrom(d, query, i) ==
    IF i > MaxDocs THEN <<>>
    ELSE (IF Stored(d, i) /\ Matches(FullDoc(d, i), query.selector)
          THEN <<Project(FullDoc(d, i), query)>>
          ELSE <<>>) \o FindFrom(d, query, i + 1)

\* POST /_find: the matching documents in id order, cut to the limit.
ServeFind(d, query) ==
    LET hits == FindFrom(d, query, 1)
        docs == IF "limit" \in DOMAIN query /\ query.limit < Len(hits)
                THEN SubSeq(hits, 1, query.limit) ELSE hits
    IN  Response(200, [docs |-> docs], d)

\* The store's answer to one request.
Serve(d, request, fresh) ==
    LET e == request.endpoint
    IN  CASE e[1] = "/_find" -> ServeFind(d, request.data)
          [] e[1] = "" -> ServeCreate(d, request.data, fresh)
          [] request.method = "GET" -> ServeGet(d, e[2])
          [] request.method = "PUT" -> ServeWrite(d, e[2], request.data)
          [] OTHER -> ServeDelete(d, e[2], e[4])

(***************************************************************************)
(* The transport.  net is what the network and the server do to this one   *)
(* call: "ok", "refused" (no connection: urlopen raises URLError) or       *)
(* "unauthorized" (the server rejects the credentials with 401).           *)
(***************************************************************************)
NetModes == {"ok", "refused", "unauthorized"}

Return(value) == [raised |-> FALSE, value |-> value, message |-> Empty]

Raise(message) == [raised |-> TRUE, value |-> Empty, message |-> message]

\* f"HTTP {e.code} Error: {error_data}"
HttpErrorMessage(code, error_data) == <<"HTTP ", code, " Error: ", error_data>>

\* f"Request failed: {str(e)}"
RequestFailedMessage(cause) == <<"Request failed: ", cause>>

\* What urlopen meets: the server's answer, or no answer at all.
Answer(d, request, net, fresh) ==
    IF net = "unauthorized" THEN Response(401, "unauthorized", d)
    ELSE Serve(d, request, fresh)

\* _make_request with the handlers in the other order: `except Exception`
\* first, which takes the HTTP errors too.
MakeRequestOneHandler(d, endpoint, method, data, net, fresh) ==
    LET request == [endpoint |-> endpoint, method |-> method,
                    data |-> IF DOMAIN data # {} THEN data ELSE Empty]
        answer == Answer(d, request, net, fresh)
    IN  IF net = "refused"
        THEN [out |-> Raise(RequestFailedMessage("Connection refused")),
              requests |-> <<request>>, status |-> 0, body |-> Empty, db |-> d]
        ELSE [out |-> IF 200 <= answer.status /\ answer.status < 300
                      THEN Return(answer.body)
                      ELSE Raise(RequestFailedMessage("HTTP Error")),
              requests |-> <<request>>, status |-> answer.status,
              body |-> answer.body, db |-> answer.db]

\* _make_request(endpoint, method, data): one urlopen, whose outcome is
\* returned (2xx), raised as an HTTP error (any other status) or raised as
\* a failed request (no answer).  The result carries the requests sent, the
\* raw answer and the database afterwards.
MakeRequest(d, endpoint, method, data, net, fresh) ==
    LET request == [endpoint |-> endpoint, method |-> method,
                    data |-> IF DOMAIN data # {} THEN data ELSE Empty]
        answer == Answer(d, request, net, fresh)
    IN  IF net = "refused"
        THEN [out |-> Raise(RequestFailedMessage("Connection refused")),
              requests |-> <<request>>, status |-> 0, body |-> Empty, db |-> d]
        ELSE [out |-> IF 200 <= answer.status /\ answer.status < 300
                      THEN Return(answer.body)
                      ELSE Raise(HttpErrorMessage(answer.status, answer.body)),
              requests |-> <<request>>, status |-> answer.status,
              body |-> answer.body, db |-> answer.db]

\* result.get("docs", []) on what _make_request returned; a raise propagates.
Docs(r) ==
    IF r.out.raised THEN r
    ELSE [r EXCEPT !.out = Return(Get(r.out.value, "docs", <<>>))]

(***************************************************************************)
(* The repository operations.  limit = 0 stands for None (and for 0, which *)
(* `if limit:` treats alike).                                              *)
(***************************************************************************)
\* create_license with the two flags in each other's place.
LicenseDocFlagsSwapped(full_name, short_name, text, osi_approved, checked, kwargs) ==
    DictDisplay([type |-> "license", fullName |-> full_name,
                 shortName |-> short_name, text |-> text,
                 OSIApproved |-> checked, checked |-> osi_approved], kwargs)

LicenseDoc(full_name, short_name, text, osi_approved, checked, kwargs) ==
    DictDisplay([type |-> "license", fullName |-> full_name,
                 shortName |-> short_name, text |-> text,
                 OSIApproved |-> osi_approved, checked |-> checked], kwargs)

UpdateDoc(rev, full_name, short_name, text, osi_approved, checked, kwargs) ==
    DictDisplay([_rev |-> rev, type |-> "license", fullName |-> full_name,
                 shortName |-> short_name, text |-> text,
                 OSIApproved |-> osi_approved, checked |-> checked], kwargs)

ListQuery(limit) ==
    IF limit # 0 THEN [selector |-> [type |-> "license"], limit |-> limit]
    ELSE [selector |-> [type |-> "license"]]

list_licenses(d, limit, net) ==
    Docs(MakeRequest(d, <<"/_find">>, "POST", ListQuery(limit), net, 0))

create_license(d, a, kwargs, net, fresh) ==
    MakeRequest(d, <<"">>, "POST",
                LicenseDoc(a.full_name, a.short_name, a.text, a.osi_approved,
                           a.checked, kwargs),
                net, fresh)

get_license(d, license_id, net) ==
    MakeRequest(d, <<"/", license_id>>, "GET", Empty, net, 0)

\* update_license that, on a conflict, fetches the document and sends the
\* update again with the revision it found.
update_license_retrying(d, license_id, rev, a, kwargs, net) ==
    LET first == MakeRequest(d, <<"/", license_id>>, "PUT",
                             UpdateDoc(rev, a.full_name, a.short_name, a.text,
                                       a.osi_approved, a.checked, kwargs),
                             net, 0)
        cur == MakeRequest(first.db, <<"/", license_id>>, "GET", Empty, net, 0)
        again == MakeRequest(cur.db, <<"/", license_id>>, "PUT",
                             UpdateDoc(cur.out.value["_rev"], a.full_name,
                                       a.short_name, a.text, a.osi_approved,
                                       a.checked, kwargs),
                             net, 0)
    IN  IF first.status # 409 THEN first
        ELSE IF cur.out.raised
             THEN [cur EXCEPT !.requests = first.requests \o cur.requests]
        ELSE [again EXCEPT !.requests =
                first.requests \o cur.requests \o again.requests]

\* update_license that sends the call's fields laid over the stored
\* document: a patch.
update_license_patching(d, license_id, rev, a, kwargs, net) ==
    MakeRequest(d, <<"/", license_id>>, "PUT",
                DictDisplay(d[license_id].body,
                            UpdateDoc(rev, a.full_name, a.short_name, a.text,
                                      a.osi_approved, a.checked, kwargs)),
                net, 0)

update_license(d, license_id, rev, a, kwargs, net) ==
    MakeRequest(d, <<"/", license_id>>, "PUT",
                UpdateDoc(rev, a.full_name, a.short_name, a.text,
                          a.osi_approved, a.checked, kwargs),
                net, 0)

\* delete_license that leaves the revision out of the query string.
DeleteEndpointWithoutRev(license_id, rev) == <<"/", license_id, "?rev=", 0>>

DeleteEndpoint(license_id, rev) == <<"/", license_id, "?rev=", rev>>

delete_license(d, license_id, rev, net) ==
    MakeRequest(d, DeleteEndpoint(license_id, rev), "DELETE", Empty, net, 0)

\* find_by_short_name without the type in its selector.
ShortNameQueryAnyType(short_name) == [selector |-> [shortName |-> short_name]]

ShortNameQuery(short_name) ==
    [selector |-> [type |-> "license", shortName |-> short_name]]

find_by_short_name(d, short_name, net) ==
    Docs(MakeRequest(d, <<"/_find">>, "POST", ShortNameQuery(short_name), net, 0))

get_osi_approved_licenses(d, net) ==
    Docs(MakeRequest(d, <<"/_find">>, "POST",
                     [selector |-> [type |-> "license", OSIApproved |-> TRUE]],
                     net, 0))

get_checked_licenses(d, net) ==
    Docs(MakeRequest(d, <<"/_find">>, "POST",
                     [selector |-> [type |-> "license", checked |-> TRUE]],
                     net, 0))

get_unchecked_licenses(d, net) ==
    Docs(MakeRequest(d, <<"/_find">>, "POST",
                     [selector |-> [type |-> "license", checked |-> FALSE]],
                     net, 0))

\* count_licenses without the type in its selector.
CountQueryAnyType == [selector |-> Empty, fields |-> <<"_id">>]

CountQuery == [selector |-> [type |-> "license"], fields |-> <<"_id">>]

count_licenses(d, net) ==
    LET r == Docs(MakeRequest(d, <<"/_find">>, "POST", CountQuery, net, 0))
    IN  IF r.out.raised THEN r ELSE [r EXCEPT !.out = Return(Len(r.out.value))]

\* fields = None is [none |-> TRUE]; a given list is [none |-> FALSE, names |-> list].
DefaultFields == <<"fullName", "shortName", "text">>

SearchFields(fields) == IF fields.none THEN DefaultFields ELSE fields.names

\* The test of search_licenses as its docstring describes it: case-sensitive.
FieldMatchesCaseSensitive(license, field, search_text) ==
    /\ field \in DOMAIN license
    /\ In(search_text, Str(field, license[field]))

FieldMatches(license, field, search_text) ==
    /\ field \in DOMAIN license
    /\ In(Lower(search_text), Lower(Str(field, license[field])))

\* The inner loop of search_licenses from the k-th field on: what it appends
\* to results.  The break ends it at the first field that matches.
RECURSIVE FieldLoop(_, _, _, _)
FieldLoop(license, fields, search_text, k) ==
    IF k > Len(fields) THEN <<>>
    ELSE IF FieldMatches(license, fields[k], search_text) THEN <<license>>
    ELSE FieldLoop(license, fields, search_text, k + 1)

\* The outer loop from the j-th license on.
RECURSIVE LicenseLoop(_, _, _, _)
LicenseLoop(all_licenses, fields, search_text, j) ==
    IF j > Len(all_licenses) THEN <<>>
    ELSE FieldLoop(all_licenses[j], fields, search_text, 1)
            \o LicenseLoop(all_licenses, fields, search_text, j + 1)

search_licenses(d, search_text, fields, net) ==
    LET r == list_licenses(d, 0, net)
    IN  IF r.out.raised THEN r
        ELSE [r EXCEPT !.out =
                Return(LicenseLoop(r.out.value, SearchFields(fields), search_text, 1))]

(***************************************************************************)
(* The inputs the calls are drawn from.                                    *)
(***************************************************************************)
sMIT == <<"M","I","T">>
sMit == <<"m","i","t">>
sGPL == <<"G","P","L">>
sMITLicense == <<"M","I","T"," ","L","i","c">>
sGnuGpl == <<"G","n","u"," ","g","P","l">>

\* The five named arguments of create_license and update_license.
Args(full_name, short_name, text, osi_approved, checked) ==
    [full_name |-> full_name, short_name |-> short_name, text |-> text,
     osi_approved |-> osi_approved, checked |-> checked]

ArgsMIT == Args(sMITLicense, sMIT, Empty, TRUE, FALSE)
ArgsGPL == Args(sGnuGpl, sGPL, sMit, FALSE, TRUE)

\* The defaults of the signature: text="", osi_approved=False, checked=False.
Defaults == [text |-> Empty, osi_approved |-> FALSE, checked |-> FALSE]

\* The binding of a call's keyword arguments: a parameter the caller omits
\* has its default.
Signature(passed) == DictDisplay(Defaults, passed)

\* A call that passes full_name and short_name only.
ArgsOmitted == Signature([full_name |-> sGnuGpl, short_name |-> sGPL])

Call(a, kwargs) == [args |-> a, kwargs |-> kwargs]

\* create_license calls: without **kwargs, and with a type, an unrelated
\* field, a flag named again, an _id.
CreateCalls ==
    { Call(ArgsMIT, Empty), Call(ArgsGPL, Empty),
      Call(ArgsMIT, [type |-> "component"]), Call(ArgsGPL, [note |-> "n"]),
      Call(ArgsMIT, [checked |-> TRUE]), Call(ArgsMIT, [_id |-> 1]) }

\* update_license calls: without **kwargs, with the optional arguments
\* omitted, and with a type, an unrelated field, a _rev.
UpdateCalls ==
    { Call(ArgsMIT, Empty), Call(ArgsGPL, Empty), Call(ArgsOmitted, Empty),
      Call(ArgsMIT, [type |-> "component"]), Call(ArgsGPL, [note |-> "n"]),
      Call(ArgsMIT, [_rev |-> 2]) }

\* The calls made while the network or the server fails.
PlainCalls == { Call(ArgsMIT, Empty) }

\* rev arguments: a revision, or 0 for an empty one.
RevArgs == 0..MaxWrites

(***************************************************************************)
(* The state after construction, and one action per operation.  Each       *)
(* action is a whole call: it leaves the database as the store left it and *)
(* records the call in last.                                               *)
(***************************************************************************)
NoCall ==
    [op |-> "none", input |-> Empty, pre |-> NeverStored, net |-> "ok",
     requests |-> <<>>, status |-> 0, body |-> Empty, out |-> Return(Empty)]

Nobody == [id |-> 0, rev |-> 0]

Init ==
    /\ db = [i \in Ids |-> NeverStored]
    /\ last = NoCall
    /\ held = [c \in Callers |-> Nobody]
    /\ won = [i \in Ids |-> [r \in Revs |-> 0]]

\* The call (op, input) with result r; pre is the target document before it.
Called(op, input, pre, net, r) ==
    [op |-> op, input |-> input, pre |-> pre, net |-> net,
     requests |-> r.requests, status |-> r.status, body |-> r.body,
     out |-> r.out]

RECURSIVE Writes(_, _)
Writes(d, i) == IF i > MaxDocs THEN 0 ELSE d[i].rev + Writes(d, i + 1)

\* The model follows the database through MaxWrites accepted writes.
WithinBounds(d) == Writes(d, 1) <= MaxWrites

\* The caller is synchronous: a call starts when the caller has taken the
\* result of the previous one.
Completes(op, input, pre, net, r) ==
    /\ last.op = "none"
    /\ WithinBounds(r.db)
    /\ db' = r.db
    /\ last' = Called(op, input, pre, net, r)
    /\ UNCHANGED <<held, won>>

\* The ids the store may assign to a new document: those never used.
FreshIds(d) == {i \in Ids : d[i].rev = 0}

Create(a, kwargs, net) ==
    \E fresh \in (IF "_id" \in DOMAIN kwargs THEN {kwargs["_id"]} ELSE FreshIds(db)) :
        Completes("create", [args |-> a, kwargs |-> kwargs], db[fresh], net,
                  create_license(db, a, kwargs, net, fresh))

GetLicense(i, net) ==
    Completes("get", [id |-> i], db[i], net, get_license(db, i, net))

Update(i, rev, a, kwargs, net) ==
    Completes("update", [id |-> i, rev |-> rev, args |-> a, kwargs |-> kwargs],
              db[i], net, update_license(db, i, rev, a, kwargs, net))

Delete(i, rev, net) ==
    Completes("delete", [id |-> i, rev |-> rev], db[i], net,
              delete_license(db, i, rev, net))

List(limit, net) ==
    Completes("list", [limit |-> limit], NeverStored, net,
              list_licenses(db, limit, net))

FindByShortName(short_name, net) ==
    Completes("find", [short_name |-> short_name], NeverStored, net,
              find_by_short_name(db, short_name, net))

GetOsiApproved(net) ==
    Completes("osi", Empty, NeverStored, net, get_osi_approved_licenses(db, net))

GetChecked(net) ==
    Completes("checked", Empty, NeverStored, net, get_checked_licenses(db, net))

GetUnchecked(net) ==
    Completes("unchecked", Empty, NeverStored, net, get_unchecked_licenses(db, net))

Count(net) ==
    Completes("count", Empty, NeverStored, net, count_licenses(db, net))

Search(search_text, fields, net) ==
    Completes("search", [search_text |-> search_text, fields |-> fields],
              NeverStored, net, search_licenses(db, search_text, fields, net))

\* The caller takes the result of the call; the manager keeps nothing of it.
Taken ==
    /\ last.op # "none"
    /\ last' = NoCall
    /\ UNCHANGED <<db, held, won>>

\* Every operation, under the network behaviour net, on the given calls.
Calls(net, creates, updates) ==
    \/ \E c \in creates : Create(c.args, c.kwargs, net)
    \/ \E i \in Ids : GetLicense(i, net)
    \/ \E i \in Ids, rev \in RevArgs, c \in updates :
            Update(i, rev, c.args, c.kwargs, net)
    \/ \E i \in Ids, rev \in RevArgs : Delete(i, rev, net)
    \/ \E limit \in 0..1 : List(limit, net)
    \/ FindByShortName(sMIT, net)
    \/ GetOsiApproved(net)
    \/ GetChecked(net)
    \/ GetUnchecked(net)
    \/ Count(net)
    \/ Search(sMit, [none |-> TRUE], net)

Next ==
    \/ Taken
    \/ Calls("ok", CreateCalls, UpdateCalls)
    \/ \E net \in NetModes \ {"ok"} : Calls(net, PlainCalls, PlainCalls)

Spec == Init /\ [][Next]_vars

(***************************************************************************)
(* The queries on any database: the database is drawn from documents of    *)
(* both types, with and without the optional fields, and is only read.     *)
(***************************************************************************)
Live(body) == [rev |-> 1, deleted |-> FALSE, body |-> body]

QueryDocs ==
    { NeverStored,
      [rev |-> 2, deleted |-> TRUE, body |-> Empty],
      Live([type |-> "license", fullName |-> sMITLicense, shortName |-> sMIT,
            text |-> Empty, OSIApproved |-> TRUE, checked |-> FALSE]),
      Live([type |-> "license", fullName |-> sGnuGpl, shortName |-> sGPL,
            text |-> sMit, OSIApproved |-> FALSE, checked |-> TRUE]),
      Live([type |-> "license", fullName |-> sGnuGpl, shortName |-> sMit,
            OSIApproved |-> FALSE, checked |-> FALSE]),
      Live([type |-> "component", fullName |-> sMITLicense, shortName |-> sMIT,
            text |-> sMit]),
      Live([type |-> "license", fullName |-> sGPL]) }

ShortNames == {sMIT, sMit, sGPL}

SearchTexts == {sMit, <<"g","p","l">>, <<"t","r","u","e">>, Empty}

FieldsArgs ==
    { [none |-> TRUE],
      [none |-> FALSE, names |-> <<"shortName">>],
      [none |-> FALSE, names |-> <<"checked", "fullName", "text">>] }

InitQuery ==
    /\ db \in [Ids -> QueryDocs]
    /\ last = NoCall
    /\ held = [c \in Callers |-> Nobody]
    /\ won = [i \in Ids |-> [r \in Revs |-> 0]]

NextQuery ==
    \/ Taken
    \/ \E limit \in 0..1 : List(limit, "ok")
    \/ \E short_name \in ShortNames : FindByShortName(short_name, "ok")
    \/ GetOsiApproved("ok")
    \/ GetChecked("ok")
    \/ GetUnchecked("ok")
    \/ Count("ok")
    \/ \E search_text \in SearchTexts, fields \in FieldsArgs :
            Search(search_text, fields, "ok")

SpecQuery == InitQuery /\ [][NextQuery]_vars

(***************************************************************************)
(* Callers racing: each reads a document, then updates or deletes it with  *)
(* the revision it read.  won[i][r] counts the mutations of document i     *)
(* that were called with rev = r, by a caller that had read r, and that    *)
(* succeeded.                                                              *)
(***************************************************************************)
RaceCreate(a) ==
    LET r == create_license(db, a, Empty, "ok", CHOOSE i \in FreshIds(db) : TRUE)
    IN  /\ FreshIds(db) # {}
        /\ WithinBounds(r.db)
        /\ db' = r.db
        /\ UNCHANGED <<last, held, won>>

RaceRead(c, i) ==
    LET r == get_license(db, i, "ok")
    IN  /\ ~r.out.raised
        /\ held' = [held EXCEPT ![c] = [id |-> r.out.value["_id"],
                                        rev |-> r.out.value["_rev"]]]
        /\ UNCHANGED <<db, last, won>>

\* What a caller's mutation with the revision it holds leaves behind.
RaceDone(c, r) ==
    /\ held[c] # Nobody
    /\ WithinBounds(r.db)
    /\ db' = r.db
    /\ held' = [held EXCEPT ![c] = Nobody]
    /\ won' = IF r.out.raised THEN won
              ELSE [won EXCEPT ![held[c].id][held[c].rev] = @ + 1]
    /\ UNCHANGED last

RaceUpdate(c, a, kwargs) ==
    RaceDone(c, update_license(db, held[c].id, held[c].rev, a, kwargs, "ok"))

RaceDelete(c) ==
    RaceDone(c, delete_license(db, held[c].id, held[c].rev, "ok"))

NextRace ==
    \/ RaceCreate(ArgsMIT)
    \/ \E c \in Callers, i \in Ids : RaceRead(c, i)
    \/ \E c \in Callers, u \in {Call(ArgsGPL, Empty), Call(ArgsMIT, [_rev |-> 2])} :
            RaceUpdate(c, u.args, u.kwargs)
    \/ \E c \in Callers : RaceDelete(c)

SpecRace == Init /\ [][NextRace]_vars

(***************************************************************************)
(* Properties of single calls, read off the record of the last call.       *)
(***************************************************************************)
\* The target document was stored when the last call started.
PreStored == last.pre.rev > 0 /\ ~last.pre.deleted

\* The last call raised f"HTTP {code} Error: {body}".
Rejected == last.out.raised /\ last.out.message[1] = "HTTP "

\* The last call raised f"Request failed: {cause}".
Failed == last.out.raised /\ last.out.message[1] = "Request failed: "

NotFound == HttpErrorMessage(404, "not_found")

\* C1: update_license(license_id, rev, ...) on a stored document, whatever
\* the other arguments and **kwargs: with a rev that is not the document's
\* revision it raises an HTTP error and leaves the document as it was; with
\* the document's revision it succeeds and returns another revision.
UpdateHonoursRev ==
    (last.op = "update" /\ last.net = "ok" /\ PreStored) =>
        IF last.input.rev # last.pre.rev
        THEN Rejected /\ db[last.input.id] = last.pre
        ELSE ~last.out.raised /\ last.out.value.rev # last.input.rev

\* The same without a _rev among the **kwargs: this much the code does.
UpdateHonoursRevUnlessRenamed ==
    (last.op = "update" /\ last.net = "ok" /\ PreStored
        /\ "_rev" \notin DOMAIN last.input.kwargs) =>
        IF last.input.rev # last.pre.rev
        THEN Rejected /\ db[last.input.id] = last.pre
        ELSE ~last.out.raised /\ last.out.value.rev # last.input.rev

UpdateRenamedRevAccepted ==
    /\ last.op = "update" /\ PreStored /\ ~last.out.raised
    /\ last.input.rev # last.pre.rev

\* C2: delete_license(license_id, rev) on a stored document: with a stale or
\* empty rev it raises and the document stays stored as it was; with the
\* document's revision (and the server reached) it succeeds; and as long as
\* no document has been stored again under a deleted id, get_license of it
\* raises the HTTP 404 error.
DeleteHonoursRev ==
    /\ (last.op = "delete" /\ PreStored /\ last.input.rev # last.pre.rev) =>
            /\ last.out.raised
            /\ db[last.input.id] = last.pre
    /\ (last.op = "delete" /\ PreStored /\ last.net = "ok"
            /\ last.input.rev = last.pre.rev) =>
            /\ ~last.out.raised
            /\ db[last.input.id].deleted
    /\ \A i \in Ids : db[i].deleted =>
            /\ get_license(db, i, "ok").out.raised
            /\ get_license(db, i, "ok").out.message = NotFound
    /\ (last.op = "get" /\ last.pre.deleted /\ last.net = "ok") =>
            Rejected /\ last.out.message = NotFound

GetAfterDelete ==
    /\ last.op = "get" /\ last.pre.deleted /\ last.net = "ok"
    /\ Rejected /\ last.status = 404

\* C4: the body create_license and update_license send has type "license",
\* whatever the **kwargs.
BodyTypeIsLicense ==
    last.op \in {"create", "update"} =>
        last.requests[1].data["type"] = "license"

NamedFields == {"fullName", "shortName", "text", "OSIApproved", "checked"}

\* C5: after a successful create_license(full_name, short_name, text,
\* osi_approved, checked) -- no **kwargs naming one of the five fields
\* again -- get_license of the returned id returns a document with
\* fullName, shortName, text, OSIApproved and checked as passed.
CreateGetRoundTrip ==
    (last.op = "create" /\ ~last.out.raised
        /\ DOMAIN last.input.kwargs \cap NamedFields = {}) =>
        LET got == get_license(db, last.out.value.id, "ok").out
            a == last.input.args
        IN  /\ ~got.raised
            /\ got.value["_id"] = last.out.value.id
            /\ got.value.fullName = a.full_name
            /\ got.value.shortName = a.short_name
            /\ got.value.text = a.text
            /\ got.value.OSIApproved = a.osi_approved
            /\ got.value.checked = a.checked

CreatedAndStored ==
    /\ last.op = "create" /\ ~last.out.raised
    /\ DOMAIN last.input.kwargs = {}
    /\ last.input.args = ArgsGPL
    /\ Stored(db, last.out.value.id)

\* C6: in every state of the database that create, update and delete calls
\* lead to, count_licenses() is the length of list_licenses().
CountIsListLength ==
    /\ count_licenses(db, "ok").out.value
            = Len(list_licenses(db, 0, "ok").out.value)
    /\ (last.op = "count" /\ ~last.out.raised) =>
            last.out.value = Len(list_licenses(db, 0, "ok").out.value)

CountedAmongOthers ==
    /\ last.op = "count" /\ ~last.out.raised /\ last.out.value = 1
    /\ \E i \in Ids : Stored(db, i) /\ db[i].body["type"] # "license"

\* C9: every call ends in one of three ways: it returns the whole result of
\* a 2xx answer; it raises the HTTP error with the status and the body of a
\* non-2xx answer; it raises the failed request with its cause when there
\* was no answer -- never one for the other, search_licenses included.
ThreeOutcomes ==
    last.op # "none" =>
        /\ last.net = "refused" =>
                Failed /\ last.out.message[2] = "Connection refused"
        /\ (last.net # "refused" /\ ~(200 <= last.status /\ last.status < 300)) =>
                /\ Rejected
                /\ last.out.message[2] = last.status
                /\ last.out.message[4] = last.body
        /\ (last.net # "refused" /\ 200 <= last.status /\ last.status < 300) =>
                /\ ~last.out.raised
                /\ last.op \in {"create", "get", "update", "delete"} =>
                        last.out.value = last.body
                /\ last.op \in {"list", "find", "osi", "checked", "unchecked"} =>
                        last.out.value = last.body.docs
                /\ last.op = "count" => last.out.value = Len(last.body.docs)

ConflictRejected ==
    /\ last.op = "update" /\ PreStored /\ last.status = 409
    /\ Rejected /\ last.out.message[4] = "conflict"

\* C10: every call sends one request, and none after a failure.
OneRequestPerCall ==
    last.op # "none" => Len(last.requests) = 1

DeleteConflictOneRequest ==
    /\ last.op = "delete" /\ PreStored /\ last.status = 409 /\ last.out.raised
    /\ Len(last.requests) = 1

\* C3: of two callers that read the same document at revision r and then
\* each call update_license or delete_license with r, at most one succeeds.
AtMostOneWinner ==
    \A i \in Ids, r \in Revs : won[i][r] <= 1

\* The text of a field contains the search text, letter case apart.
ContainsIgnoringCase(text, search_text) ==
    \E off \in 0..(Len(text) - Len(search_text)) :
        \A k \in 1..Len(search_text) :
            LowerChar(text[off + k]) = LowerChar(search_text[k])

\* C7: find_by_short_name(X) returns only documents of the database whose
\* shortName is X, letter for letter, and whose type is "license".
FindIsExact ==
    (last.op = "find" /\ ~last.out.raised) =>
        \A n \in DOMAIN last.out.value :
            LET doc == last.out.value[n]
            IN  /\ doc["_id"] \in Ids /\ Stored(db, doc["_id"])
                /\ doc = FullDoc(db, doc["_id"])
                /\ "shortName" \in DOMAIN doc
                /\ doc.shortName = last.input.short_name
                /\ doc["type"] = "license"

FoundAmongLookalikes ==
    /\ last.op = "find" /\ ~last.out.raised /\ Len(last.out.value) = 1
    /\ \E i \in Ids :
            /\ Stored(db, i) /\ "shortName" \in DOMAIN db[i].body
            /\ db[i].body.shortName # last.input.short_name
            /\ Lower(db[i].body.shortName) = Lower(last.input.short_name)

UpdateReplacesDocument ==
    (last.op = "update" /\ ~last.out.raised) =>
        LET i == last.input.id
            a == last.input.args
            k == last.input.kwargs
            passed == [fullName |-> a.full_name, shortName |-> a.short_name,
                       text |-> a.text, OSIApproved |-> a.osi_approved,
                       checked |-> a.checked]
            got == get_license(db, i, "ok").out
            doc == db[i].body
        IN  /\ last.out.value.id = i
            /\ ~got.raised /\ got.value["_id"] = i
            /\ DOMAIN doc = ({"type"} \cup NamedFields \cup DOMAIN k) \ {"_rev"}
            /\ \A f \in DOMAIN k \ {"_rev"} : doc[f] = k[f]
            /\ \A f \in NamedFields \ DOMAIN k : doc[f] = passed[f]
            /\ "type" \notin DOMAIN k => doc["type"] = "license"
            /\ \A f \in DOMAIN last.pre.body :
                    f \notin ({"type"} \cup NamedFields \cup DOMAIN k)
                        => f \notin DOMAIN got.value
            /\ (a = ArgsOmitted /\ DOMAIN k = {}) =>
                    /\ doc["text"] = Empty
                    /\ doc["OSIApproved"] = FALSE
                    /\ doc["checked"] = FALSE

\* An update that omits text, osi_approved and checked, of a stored document
\* that had a text, was checked and held an extra field.
OmittedFieldsReset ==
    /\ last.op = "update" /\ ~last.out.raised /\ PreStored
    /\ last.input.args = ArgsOmitted /\ DOMAIN last.input.kwargs = {}
    /\ last.pre.body["text"] # Empty /\ last.pre.body["checked"] = TRUE
    /\ "note" \in DOMAIN last.pre.body
    /\ "note" \notin DOMAIN db[last.input.id].body
    /\ db[last.input.id].body["text"] = Empty

====
